---- MODULE Spec2Model ----
(***************************************************************************)
(* Model of the pipeline waiting / collection engine of rust_cmd_lib,      *)
(* src/src/child.rs: the pipeline handle CmdChildren (wait_cmd_result,     *)
(* wait_fun_result, wait_with_pipe) and the stage handle CmdChild (wait,   *)
(* wait_with_output, log_stderr_output, print_stdout_output).              *)
(*                                                                         *)
(* The specifications share the definitions of this module:                *)
(*   Spec       the pipeline handle; every terminal operation is one       *)
(*              action that runs the whole handler on self.0;              *)
(*   SpecText   the same actions, started from single-stage pipelines      *)
(*              whose captured output ranges over all short byte strings;  *)
(*   SpecStage  one stage handle consumed by one operation, statement by   *)
(*              statement, with the stage's process or task and the drain  *)
(*              thread running beside the caller;                          *)
(*   FairSpecStage  SpecStage with every thread and process scheduled.     *)
(***************************************************************************)
EXTENDS Integers, Sequences, FiniteSets, TLC

\* longest pipeline built
MaxStages == 3
\* longest captured output, in bytes
MaxOut == 3
\* bytes the diagnostic pipe holds before a write to it blocks
PipeCap == 1

VARIABLES
    pipeline,   \* the Vec<CmdChild> handed to CmdChildren::from, never changed
    children,   \* self.0, the stages the handle still holds
    env,        \* the value of CMD_LIB_PIPEFAIL in the process environment
    op,         \* the terminal operation called last ("none" before the first)
    ret,        \* what that call returned (or that it panicked)
    errlog,     \* the error!() entries that call emitted
    waits,      \* the stage operations that call performed, in order
    cb,         \* the labels of the stages whose stream that call gave to f
    before,     \* self.0 as it was when that call started
    \* one stage handle, statement by statement (SpecStage)
    cmdchild,   \* the CmdChild being consumed, with what its process will do
    call,       \* the operation consuming it
    pc,         \* the caller's position in Steps(call, self)
    worker,     \* the stage's process or task: "running", "exited", "killed"
    towrite,    \* diagnostic bytes the process or task has yet to write
    errpipe,    \* bytes in the diagnostic pipe
    drain,      \* the thread of log_stderr_output: "unspawned", "running", "exited"
    joined,     \* the drain thread's JoinHandle has been joined
    info,       \* diagnostic bytes forwarded to info!()
    events,     \* the statements the caller has executed, in order
    sret        \* what the operation returned

pipevars == <<pipeline, children, op, ret, errlog, waits, cb, before>>
stagevars == <<cmdchild, call, pc, worker, towrite, errpipe, drain, joined, info, events, sret>>
vars == <<pipevars, env, stagevars>>

(***************************************************************************)
(* Values                                                                  *)
(***************************************************************************)
Labels == <<"A", "B", "C", "D", "E", "F">>

\* std::process::ExitStatus: exited with a code, or terminated by a signal
ExitStatuses ==
    {[kind |-> "exit", n |-> 0], [kind |-> "exit", n |-> 1], [kind |-> "signal", n |-> 9]}

\* CmdResult / FunResult / Result<Vec<u8>>; "Panic" is an unwinding panic
OkUnit == [t |-> "Ok"]
OkVal(v) == [t |-> "Ok", v |-> v]
Err(e) == [t |-> "Err", e |-> e]
Panic == [t |-> "Panic"]

\* the io::Error a background task returned by itself: its content is the
\* task's, this file adds nothing to it
TaskError(i) == [kind |-> "task", cmd |-> "", how |-> "returned", n |-> i]

\* what JoinHandle<CmdResult>::join() gives for the task of stage i
JoinResults(i) == {OkUnit, Err(TaskError(i)), Panic}

\* the bytes a stage may write to its primary stream
Bytes == {10, 97, 255}

RECURSIVE ByteStrings(_)
ByteStrings(n) ==
    IF n = 0 THEN {<<>>}
    ELSE LET S == ByteStrings(n - 1) IN
         S \cup {Append(s, b) : s \in {x \in S : Len(x) = n - 1}, b \in Bytes}

\* Option<PipeReader> / Option<ChildStdout> of the primary stream with the
\* bytes it yields: held (Some) with one of outs, or not held (None)
Streams(outs) ==
    {[stdout |-> TRUE, out |-> o] : o \in outs} \cup {[stdout |-> FALSE, out |-> <<>>]}

\* the primary stream of a non-terminal stage feeds the next stage: the handle
\* does not hold it
NoStream == {[stdout |-> FALSE, out |-> <<>>]}

\* enum CmdChild, stage i of a pipeline
ProcStages(i, streams) ==
    {[kind |-> "Proc", cmd |-> Labels[i], ignore_error |-> ig, status |-> s,
      join |-> OkUnit, stdout |-> st.stdout, out |-> st.out] :
        ig \in BOOLEAN, s \in ExitStatuses, st \in streams}

ThreadFnStages(i, streams) ==
    {[kind |-> "ThreadFn", cmd |-> Labels[i], ignore_error |-> ig,
      status |-> [kind |-> "exit", n |-> 0],
      join |-> j, stdout |-> st.stdout, out |-> st.out] :
        ig \in BOOLEAN, j \in JoinResults(i), st \in streams}

SyncFnStages(i, streams) ==
    {[kind |-> "SyncFn", cmd |-> Labels[i], ignore_error |-> FALSE,
      status |-> [kind |-> "exit", n |-> 0],
      join |-> OkUnit, stdout |-> st.stdout, out |-> st.out] :
        st \in streams}

Stages(i, streams) ==
    ProcStages(i, streams) \cup ThreadFnStages(i, streams) \cup SyncFnStages(i, streams)

\* the stage s put at place i of a pipeline
Placed(s, i) ==
    [s EXCEPT !.cmd = Labels[i],
              !.join = IF s.join.t = "Err" THEN Err(TaskError(i)) ELSE s.join]

(***************************************************************************)
(* CmdChild                                                                *)
(***************************************************************************)
\* std::env::var("CMD_LIB_PIPEFAIL") != Ok("0".into())
pipefail(envv) == envv # "0"

success(status) == status.kind = "exit" /\ status.n = 0

\* the exit code reported also for a process that has none
status_to_io_error_code_only(status, command) ==
    [kind |-> "exited", cmd |-> command, how |-> "status code", n |-> status.n]

\* command is format!("{} exited with error", cmd)
status_to_io_error(status, command) ==
    IF status.kind = "exit"
    THEN [kind |-> "exited", cmd |-> command, how |-> "status code", n |-> status.n]
    ELSE [kind |-> "exited", cmd |-> command, how |-> "terminated by", n |-> status.n]

\* format!("{} thread exited with error: {:?}", cmd, e)
thread_error(cmd) == [kind |-> "thread", cmd |-> cmd, how |-> "panicked", n |-> 0]

\* the task's failure returned whatever the position and the pipefail flag
check_result_unconditional(result, is_last, pf) ==
    IF result.t = "Err" THEN result ELSE OkUnit

\* the closure check_result of wait
check_result(result, is_last, pf) ==
    IF result.t = "Err" /\ (is_last \/ pf) THEN result ELSE OkUnit

\* the failure test without the pipefail flag: only the terminal stage counts
wait_Proc_terminal_only(self, is_last, pf) ==
    IF ~self.ignore_error /\ ~success(self.status) /\ is_last
    THEN Err(status_to_io_error(self.status, self.cmd))
    ELSE OkUnit

\* wait, arm CmdChild::Proc
wait_Proc(self, is_last, pf) ==
    IF ~self.ignore_error /\ ~success(self.status) /\ (is_last \/ pf)
    THEN Err(status_to_io_error(self.status, self.cmd))
    ELSE OkUnit

\* wait, arm CmdChild::ThreadFn
wait_ThreadFn(self, is_last, pf) ==
    IF self.ignore_error THEN OkUnit
    ELSE IF self.join.t = "Panic"
         THEN IF is_last \/ pf THEN Err(thread_error(self.cmd)) ELSE OkUnit
         ELSE check_result(self.join, is_last, pf)

\* wait, arm CmdChild::SyncFn
wait_SyncFn(self, is_last, pf) == OkUnit

wait(self, is_last, envv) ==
    LET pf == pipefail(envv) IN
    CASE self.kind = "Proc" -> wait_Proc(self, is_last, pf)
      [] self.kind = "ThreadFn" -> wait_ThreadFn(self, is_last, pf)
      [] self.kind = "SyncFn" -> wait_SyncFn(self, is_last, pf)

\* wait_with_output, arm CmdChild::Proc
wait_with_output_Proc(self) ==
    IF ~self.ignore_error /\ ~success(self.status)
    THEN Err(status_to_io_error(self.status, self.cmd))
    ELSE OkVal(self.out)

\* wait_with_output, arm CmdChild::ThreadFn: ignore_error is not bound by the
\* pattern; child.join().unwrap()? panics on a crashed task and returns the
\* task's own failure
wait_with_output_ThreadFn(self) ==
    LET buf == IF self.stdout THEN self.out ELSE <<>> IN
    IF self.join.t = "Panic" THEN Panic
    ELSE IF self.join.t = "Err" THEN self.join
    ELSE OkVal(buf)

\* wait_with_output, arm CmdChild::SyncFn
wait_with_output_SyncFn(self) ==
    IF self.stdout THEN OkVal(self.out) ELSE OkVal(<<>>)

wait_with_output(self) ==
    CASE self.kind = "Proc" -> wait_with_output_Proc(self)
      [] self.kind = "ThreadFn" -> wait_with_output_ThreadFn(self)
      [] self.kind = "SyncFn" -> wait_with_output_SyncFn(self)

\* children.iter().map(cmd).collect().join(" | ")
RECURSIVE get_full_cmd(_)
get_full_cmd(chs) ==
    IF chs = <<>> THEN <<>>
    ELSE IF Len(chs) = 1 THEN <<chs[1].cmd>>
    ELSE <<chs[1].cmd, " | ">> \o get_full_cmd(Tail(chs))

(***************************************************************************)
(* CmdChildren                                                             *)
(***************************************************************************)
Last(s) == s[Len(s)]
Front(s) == SubSeq(s, 1, Len(s) - 1)

WaitEvent(self, how, is_last) == [cmd |-> self.cmd, how |-> how, is_last |-> is_last]

\* the loop taking the stages from the front: insertion order
RECURSIVE wait_children_insertion_order(_, _)
wait_children_insertion_order(chs, envv) ==
    IF chs = <<>> THEN [children |-> <<>>, ret |-> OkUnit, waited |-> <<>>]
    ELSE LET child_handle == Head(chs)
             r == wait(child_handle, FALSE, envv)
             ev == WaitEvent(child_handle, "wait", FALSE)
         IN IF r.t = "Err"
            THEN [children |-> Tail(chs), ret |-> r, waited |-> <<ev>>]
            ELSE LET w == wait_children_insertion_order(Tail(chs), envv)
                 IN [children |-> w.children, ret |-> w.ret,
                     waited |-> <<ev>> \o w.waited]

\* the loop of wait_children: pops and waits until a wait fails
RECURSIVE wait_children(_, _)
wait_children(chs, envv) ==
    IF chs = <<>> THEN [children |-> <<>>, ret |-> OkUnit, waited |-> <<>>]
    ELSE LET child_handle == Last(chs)
             r == wait(child_handle, FALSE, envv)
             ev == WaitEvent(child_handle, "wait", FALSE)
         IN IF r.t = "Err"
            THEN [children |-> Front(chs), ret |-> r, waited |-> <<ev>>]
            ELSE LET w == wait_children(Front(chs), envv)
                 IN [children |-> w.children, ret |-> w.ret,
                     waited |-> <<ev>> \o w.waited]

\* the remaining stages waited before the terminal stage's failure is returned
wait_cmd_result_nolog_cleanup(chs, envv) ==
    LET handle == Last(chs)
        r == wait(handle, TRUE, envv)
        ev == WaitEvent(handle, "wait", TRUE)
        w == wait_children(Front(chs), envv)
    IN [children |-> w.children,
        ret |-> IF r.t = "Err" THEN r ELSE w.ret,
        waited |-> <<ev>> \o w.waited]

wait_cmd_result_nolog(chs, envv) ==
    LET handle == Last(chs)
        r == wait(handle, TRUE, envv)
        ev == WaitEvent(handle, "wait", TRUE)
    IN IF r.t = "Err"
       THEN [children |-> Front(chs), ret |-> r, waited |-> <<ev>>]
       ELSE LET w == wait_children(Front(chs), envv)
            IN [children |-> w.children, ret |-> w.ret,
                waited |-> <<ev>> \o w.waited]

\* String::from_utf8_lossy: a byte that is no UTF-8 becomes U+FFFD
from_utf8_lossy(bytes) ==
    [k \in 1..Len(bytes) |-> IF bytes[k] < 128 THEN bytes[k] ELSE 65533]

\* every trailing line feed removed, as trim_end_matches('\n') would
RECURSIVE strip_all_newlines(_)
strip_all_newlines(text) ==
    IF Len(text) > 0 /\ text[Len(text)] = 10
    THEN strip_all_newlines(Front(text))
    ELSE text

\* if ret.ends_with('\n') { ret.pop(); }
strip_newline(text) ==
    IF Len(text) > 0 /\ text[Len(text)] = 10 THEN Front(text) ELSE text

\* the cleanup pass's failure returned in place of the capture's
wait_fun_result_nolog_cleanup_error(chs, envv) ==
    LET handle == Last(chs)
        wait_last == wait_with_output(handle)
        ev == WaitEvent(handle, "wait_with_output", TRUE)
        w == wait_children(Front(chs), envv)
    IN [children |-> w.children,
        ret |-> IF w.ret.t = "Err" THEN w.ret
                ELSE IF wait_last.t = "Ok"
                     THEN OkVal(strip_newline(from_utf8_lossy(wait_last.v)))
                     ELSE wait_last,
        waited |-> <<ev>> \o w.waited]

wait_fun_result_nolog(chs, envv) ==
    LET handle == Last(chs)
        wait_last == wait_with_output(handle)
        ev == WaitEvent(handle, "wait_with_output", TRUE)
    IN IF wait_last.t = "Panic"
       THEN [children |-> Front(chs), ret |-> Panic, waited |-> <<ev>>]
       ELSE LET w == wait_children(Front(chs), envv) IN
            IF wait_last.t = "Err"
            THEN [children |-> w.children, ret |-> wait_last,
                  waited |-> <<ev>> \o w.waited]
            ELSE [children |-> w.children,
                  ret |-> IF w.ret.t = "Err" THEN w.ret
                          ELSE OkVal(strip_newline(from_utf8_lossy(wait_last.v))),
                  waited |-> <<ev>> \o w.waited]

\* an entry logged whatever the call returns
error_entries_always(r) ==
    <<[cmd |-> get_full_cmd(r.children), err |-> r.ret]>>

\* error!("Running {} failed, Error: {}", CmdChild::get_full_cmd(&self.0), err)
\* evaluated on self.0 as the nolog call left it
error_entries(r) ==
    IF r.ret.t = "Err"
    THEN <<[cmd |-> get_full_cmd(r.children), err |-> r.ret.e]>>
    ELSE <<>>

\* self.0.pop().unwrap() on an empty vector
PopNone == [children |-> <<>>, ret |-> Panic, waited |-> <<>>]

\* a panic unwinds out of the caller: nothing more is called on the handle
Callable == ret.t # "Panic"

wait_cmd_result ==
    /\ Callable
    /\ LET r == IF children = <<>> THEN PopNone
                ELSE wait_cmd_result_nolog(children, env)
       IN /\ children' = r.children
          /\ ret' = r.ret
          /\ errlog' = error_entries(r)
          /\ waits' = r.waited
    /\ op' = "wait_cmd_result"
    /\ cb' = <<>>
    /\ before' = children
    /\ UNCHANGED <<pipeline, env, stagevars>>

wait_fun_result ==
    /\ Callable
    /\ LET r == IF children = <<>> THEN PopNone
                ELSE wait_fun_result_nolog(children, env)
       IN /\ children' = r.children
          /\ ret' = r.ret
          /\ errlog' = error_entries(r)
          /\ waits' = r.waited
    /\ op' = "wait_fun_result"
    /\ cb' = <<>>
    /\ before' = children
    /\ UNCHANGED <<pipeline, env, stagevars>>

\* a task's stream given to f as a SyncFn's is, and the call returning
pipe_handle_task_streamed(handle) ==
    [ret |-> OkUnit, cb |-> IF handle.stdout THEN <<handle.cmd>> ELSE <<>>,
     kill |-> handle.kind = "Proc" /\ handle.stdout]

\* the match of wait_with_pipe on the popped handle: whether f is called with
\* the handle's stream, whether the process is killed, whether it panics
pipe_handle(handle) ==
    CASE handle.kind = "Proc" ->
            [ret |-> OkUnit, cb |-> IF handle.stdout THEN <<handle.cmd>> ELSE <<>>,
             kill |-> handle.stdout]
      [] handle.kind = "ThreadFn" -> [ret |-> Panic, cb |-> <<>>, kill |-> FALSE]
      [] handle.kind = "SyncFn" ->
            [ret |-> OkUnit, cb |-> IF handle.stdout THEN <<handle.cmd>> ELSE <<>>,
             kill |-> FALSE]

wait_with_pipe_run(chs, envv) ==
    LET handle == Last(chs)
        h == pipe_handle(handle)
        ev == WaitEvent(handle, "pipe", TRUE)
    IN IF h.ret.t = "Panic"
       THEN [children |-> Front(chs), ret |-> Panic, waited |-> <<ev>>, cb |-> <<>>]
       ELSE LET w == wait_children(Front(chs), envv)
            IN [children |-> w.children, ret |-> OkUnit,
                waited |-> <<ev>> \o w.waited, cb |-> h.cb]

wait_with_pipe ==
    /\ Callable
    /\ LET r == IF children = <<>> THEN [PopNone EXCEPT !.waited = <<>>] @@ [cb |-> <<>>]
                ELSE wait_with_pipe_run(children, env)
       IN /\ children' = r.children
          /\ ret' = r.ret
          /\ waits' = r.waited
          /\ cb' = r.cb
    /\ errlog' = <<>>
    /\ op' = "wait_with_pipe"
    /\ before' = children
    /\ UNCHANGED <<pipeline, env, stagevars>>

(***************************************************************************)
(* One stage handle, statement by statement                                *)
(*                                                                         *)
(* The handle is consumed by wait (line 33 with is_last, line 40 without), *)
(* by wait_with_output (line 60) or by the match of wait_with_pipe (lines  *)
(* 79-98).  The caller executes the statements of the arm in order; the    *)
(* stage's process or task and the drain thread run beside it.  The        *)
(* diagnostic pipe holds PipeCap bytes; a write to a full pipe blocks.     *)
(***************************************************************************)
\* diagnostic bytes a stage writes at most: one more than the pipe holds
MaxDiag == PipeCap + 1

\* the drain read after the blocking wait instead of beside it
wait_steps_Proc_drain_after_wait ==
    <<"child.wait", "log_stderr_output", "join", "print_stdout_output", "return">>

\* wait, arm Proc: lines 143-152
wait_steps_Proc ==
    <<"log_stderr_output", "child.wait", "join", "print_stdout_output", "return">>

\* wait, arm ThreadFn: lines 161-179
wait_steps_ThreadFn ==
    <<"log_stderr_output", "child.join", "join", "return">>

\* wait, arm SyncFn: lines 184-185
wait_steps_SyncFn ==
    <<"log_stderr_output", "join", "print_stdout_output", "return">>

\* wait_with_output, arm Proc: lines 199-209
wait_with_output_steps_Proc ==
    <<"log_stderr_output", "child.wait_with_output", "join", "return">>

\* wait_with_output, arm ThreadFn: lines 217-228
wait_with_output_steps_ThreadFn(s) ==
    <<"log_stderr_output">> \o (IF s.stdout THEN <<"read_to_end">> ELSE <<>>)
        \o <<"child.join", "join", "return">>

\* wait_with_output, arm SyncFn: lines 231-237
wait_with_output_steps_SyncFn(s) ==
    <<"log_stderr_output", "join">> \o (IF s.stdout THEN <<"read_to_end">> ELSE <<>>)
        \o <<"return">>

\* wait_with_pipe, arm Proc: lines 83-87
wait_with_pipe_steps_Proc(s) ==
    (IF s.stdout THEN <<"f", "child.kill">> ELSE <<>>)
        \o <<"log_stderr_output", "join", "return">>

\* wait_with_pipe, arm ThreadFn: line 90
wait_with_pipe_steps_ThreadFn == <<"panic">>

\* wait_with_pipe, arm SyncFn: lines 93-96
wait_with_pipe_steps_SyncFn(s) ==
    <<"log_stderr_output", "join">> \o (IF s.stdout THEN <<"f">> ELSE <<>>)
        \o <<"return">>

Steps(c, s) ==
    CASE c.name = "wait" /\ s.kind = "Proc" -> wait_steps_Proc
      [] c.name = "wait" /\ s.kind = "ThreadFn" -> wait_steps_ThreadFn
      [] c.name = "wait" /\ s.kind = "SyncFn" -> wait_steps_SyncFn
      [] c.name = "wait_with_output" /\ s.kind = "Proc" -> wait_with_output_steps_Proc
      [] c.name = "wait_with_output" /\ s.kind = "ThreadFn" ->
            wait_with_output_steps_ThreadFn(s)
      [] c.name = "wait_with_output" /\ s.kind = "SyncFn" ->
            wait_with_output_steps_SyncFn(s)
      [] c.name = "wait_with_pipe" /\ s.kind = "Proc" -> wait_with_pipe_steps_Proc(s)
      [] c.name = "wait_with_pipe" /\ s.kind = "ThreadFn" -> wait_with_pipe_steps_ThreadFn
      [] c.name = "wait_with_pipe" /\ s.kind = "SyncFn" -> wait_with_pipe_steps_SyncFn(s)

\* the statement the caller is at
Step == IF pc \in 1..Len(Steps(call, cmdchild)) THEN Steps(call, cmdchild)[pc] ELSE "done"

Returned == pc > Len(Steps(call, cmdchild))

Running == worker = "running"

\* the caller has executed the statement it was at
Advance == pc' = pc + 1 /\ events' = Append(events, Step)

\* what the operation returns when it reaches its last statement
Result(c, s, envv) ==
    CASE c.name = "wait" -> wait(s, c.is_last, envv)
      [] c.name = "wait_with_output" -> wait_with_output(s)
      [] c.name = "wait_with_pipe" -> OkUnit

\* std::thread::spawn of the drain closure
log_stderr_output ==
    /\ Step = "log_stderr_output"
    /\ drain' = "running"
    /\ Advance
    /\ UNCHANGED <<cmdchild, call, worker, towrite, errpipe, joined, info, sret, pipevars, env>>

\* child.wait() and child.wait_with_output(): return once the process is gone
child_wait ==
    /\ Step \in {"child.wait", "child.wait_with_output"}
    /\ ~Running
    /\ Advance
    /\ UNCHANGED <<cmdchild, call, worker, towrite, errpipe, drain, joined, info, sret,
                   pipevars, env>>

\* child.join() of the task; in wait_with_output it is child.join().unwrap()?,
\* which panics or returns at once, before the drain thread is joined
child_join ==
    /\ Step = "child.join"
    /\ ~Running
    /\ IF call.name = "wait_with_output" /\ cmdchild.join.t # "Ok"
       THEN /\ pc' = Len(Steps(call, cmdchild)) + 1
            /\ events' = Append(events, Step)
            /\ sret' = wait_with_output_ThreadFn(cmdchild)
       ELSE Advance /\ sret' = sret
    /\ UNCHANGED <<cmdchild, call, worker, towrite, errpipe, drain, joined, info,
                   pipevars, env>>

\* polling_stderr.join(): returns once the drain thread has ended
join ==
    /\ Step = "join"
    /\ drain = "exited"
    /\ joined' = TRUE
    /\ Advance
    /\ UNCHANGED <<cmdchild, call, worker, towrite, errpipe, drain, info, sret, pipevars, env>>

\* print_stdout_output: copies the primary stream, if held, up to its end
print_stdout_output ==
    /\ Step = "print_stdout_output"
    /\ ~Running
    /\ Advance
    /\ UNCHANGED <<cmdchild, call, worker, towrite, errpipe, drain, joined, info, sret,
                   pipevars, env>>

\* out.read_to_end(&mut buf): returns at the end of the primary stream
read_to_end ==
    /\ Step = "read_to_end"
    /\ ~Running
    /\ Advance
    /\ UNCHANGED <<cmdchild, call, worker, towrite, errpipe, drain, joined, info, sret,
                   pipevars, env>>

\* f(Box::new(stdout)), up to its return: a callback that reads to end-of-data
\* returns once the stream has ended, any other whenever it likes
call_f ==
    /\ Step = "f"
    /\ call.cbfull => ~Running
    /\ Advance
    /\ UNCHANGED <<cmdchild, call, worker, towrite, errpipe, drain, joined, info, sret,
                   pipevars, env>>

\* let _ = child.kill()
child_kill ==
    /\ Step = "child.kill"
    /\ worker' = IF Running THEN "killed" ELSE worker
    /\ Advance
    /\ UNCHANGED <<cmdchild, call, towrite, errpipe, drain, joined, info, sret, pipevars, env>>

\* panic!("should not wait pipe on thread")
panic ==
    /\ Step = "panic"
    /\ sret' = Panic
    /\ Advance
    /\ UNCHANGED <<cmdchild, call, worker, towrite, errpipe, drain, joined, info, pipevars, env>>

\* the tail of the arm: the failure test and the value returned
return ==
    /\ Step = "return"
    /\ sret' = Result(call, cmdchild, env)
    /\ Advance
    /\ UNCHANGED <<cmdchild, call, worker, towrite, errpipe, drain, joined, info, pipevars, env>>

\* the process or task writes one diagnostic byte; blocked while the pipe is full
stage_write ==
    /\ Running
    /\ towrite > 0
    /\ errpipe < PipeCap
    /\ towrite' = towrite - 1
    /\ errpipe' = errpipe + 1
    /\ UNCHANGED <<cmdchild, call, pc, worker, drain, joined, info, events, sret, pipevars, env>>

\* the process exits, the task finishes: its ends of the pipes close
stage_exit ==
    /\ Running
    /\ towrite = 0
    /\ ~cmdchild.forever
    /\ worker' = "exited"
    /\ UNCHANGED <<cmdchild, call, pc, towrite, errpipe, drain, joined, info, events, sret,
                   pipevars, env>>

\* the drain closure: BufReader::new(stderr).lines() ... info!("{}", line)
drain_read ==
    /\ drain = "running"
    /\ cmdchild.stderr
    /\ errpipe > 0
    /\ errpipe' = errpipe - 1
    /\ info' = info + 1
    /\ UNCHANGED <<cmdchild, call, pc, worker, towrite, drain, joined, events, sret,
                   pipevars, env>>

\* the drain closure ends: no stream, or the stream is at its end
drain_exit ==
    /\ drain = "running"
    /\ ~cmdchild.stderr \/ (errpipe = 0 /\ ~Running)
    /\ drain' = "exited"
    /\ UNCHANGED <<cmdchild, call, pc, worker, towrite, errpipe, joined, info, events, sret,
                   pipevars, env>>

(***************************************************************************)
(* Specifications                                                          *)
(***************************************************************************)
EnvValues == {"unset", "0", "1"}

\* the outputs of the terminal stage in Spec
SpecOutputs == {<<97, 10>>}

StageIdle ==
    /\ cmdchild = [kind |-> "none"]
    /\ call = [name |-> "none"]
    /\ pc = 0
    /\ worker = "none"
    /\ towrite = 0
    /\ errpipe = 0
    /\ drain = "unspawned"
    /\ joined = FALSE
    /\ info = 0
    /\ events = <<>>
    /\ sret = [t |-> "None"]

\* CmdChildren::from(children): n stages, the last one the terminal stage
InitWith(lengths, outs) ==
    /\ \E n \in lengths :
         \E q \in [1..(n - 1) -> Stages(1, NoStream)] :
            \E last \in Stages(1, Streams(outs)) :
               pipeline = [i \in 1..n |-> Placed(IF i = n THEN last ELSE q[i], i)]
    /\ children = pipeline
    /\ env \in EnvValues
    /\ op = "none"
    /\ ret = [t |-> "None"]
    /\ errlog = <<>>
    /\ waits = <<>>
    /\ cb = <<>>
    /\ before = <<>>
    /\ StageIdle

Init == InitWith(1..MaxStages, SpecOutputs)

Next == wait_cmd_result \/ wait_fun_result \/ wait_with_pipe

Spec == Init /\ [][Next]_vars

InitText == InitWith({1}, ByteStrings(MaxOut))

SpecText == InitText /\ [][Next]_vars

\* a stage handle with its diagnostic stream (stderr = Some or None), the
\* diagnostic bytes its process or task writes, and whether the process runs
\* until it is stopped (an endless primary stream)
StageHandles ==
    {s @@ [stderr |-> e, diag |-> d, forever |-> fe] :
        s \in Stages(1, Streams(SpecOutputs)),
        e \in BOOLEAN, d \in 0..MaxDiag, fe \in BOOLEAN}

\* a SyncFn's work is over: what it wrote is in the pipe; tasks end by themselves
Buildable(s) ==
    /\ ~s.stderr => s.diag = 0
    /\ s.kind = "SyncFn" => (s.diag <= PipeCap /\ ~s.forever)
    /\ s.kind = "ThreadFn" => ~s.forever

Calls ==
    {[name |-> "wait", is_last |-> b, cbfull |-> FALSE] : b \in BOOLEAN}
    \cup {[name |-> "wait_with_output", is_last |-> TRUE, cbfull |-> FALSE]}
    \cup {[name |-> "wait_with_pipe", is_last |-> TRUE, cbfull |-> c] : c \in BOOLEAN}

InitStage ==
    /\ cmdchild \in {s \in StageHandles : Buildable(s)}
    /\ call \in Calls
    /\ env \in EnvValues
    /\ pc = 1
    /\ worker = IF cmdchild.kind = "SyncFn" THEN "exited" ELSE "running"
    /\ towrite = IF cmdchild.kind = "SyncFn" THEN 0 ELSE cmdchild.diag
    /\ errpipe = IF cmdchild.kind = "SyncFn" THEN cmdchild.diag ELSE 0
    /\ drain = "unspawned"
    /\ joined = FALSE
    /\ info = 0
    /\ events = <<>>
    /\ sret = [t |-> "None"]
    /\ pipeline = <<>>
    /\ children = <<>>
    /\ op = "none"
    /\ ret = [t |-> "None"]
    /\ errlog = <<>>
    /\ waits = <<>>
    /\ cb = <<>>
    /\ before = <<>>

NextStage ==
    \/ log_stderr_output \/ child_wait \/ child_join \/ join \/ print_stdout_output
    \/ read_to_end \/ call_f \/ child_kill \/ panic \/ return
    \/ stage_write \/ stage_exit \/ drain_read \/ drain_exit

SpecStage == InitStage /\ [][NextStage]_vars

\* native threads and processes: whatever can run is eventually run
FairSpecStage ==
    /\ SpecStage
    /\ WF_vars(log_stderr_output) /\ WF_vars(child_wait) /\ WF_vars(child_join)
    /\ WF_vars(join) /\ WF_vars(print_stdout_output) /\ WF_vars(read_to_end)
    /\ WF_vars(call_f) /\ WF_vars(child_kill) /\ WF_vars(panic) /\ WF_vars(return)
    /\ WF_vars(stage_write) /\ WF_vars(stage_exit)
    /\ WF_vars(drain_read) /\ WF_vars(drain_exit)

(***************************************************************************)
(* Vocabulary of the properties                                            *)
(***************************************************************************)
\* the stage's process exited non-zero or by signal, its task crashed or
\* returned a failure
Failing(s) ==
    CASE s.kind = "Proc" -> ~success(s.status)
      [] s.kind = "ThreadFn" -> s.join.t \in {"Err", "Panic"}
      [] s.kind = "SyncFn" -> FALSE

\* the last call was made on the pipeline as constructed
OnWholePipeline == op # "none" /\ before = pipeline

StatusOrText == op \in {"wait_cmd_result", "wait_fun_result"}

Terminal == pipeline[Len(pipeline)]

NonTerminal == 1..(Len(pipeline) - 1)

\* the position in the pipeline of the stage an error value comes from
OriginOf(e) ==
    IF e.kind = "task" THEN e.n
    ELSE CHOOSE i \in 1..Len(pipeline) : pipeline[i].cmd = e.cmd

\* the labels of the pipeline, left to right, joined with " | "
RECURSIVE JoinedLabels(_)
JoinedLabels(i) ==
    IF i = 1 THEN <<pipeline[1].cmd>>
    ELSE JoinedLabels(i - 1) \o <<" | ", pipeline[i].cmd>>

\* the stage of the pipeline that fails and is waited first: the failing
\* stage of the greatest position
FirstFailing == CHOOSE i \in 1..Len(pipeline) :
    /\ Failing(pipeline[i])
    /\ \A j \in (i + 1)..Len(pipeline) : ~Failing(pipeline[j])

\* the labels of the stages Len(pipeline), Len(pipeline) - 1, ..., i
RECURSIVE WaitOrderDownTo(_, _)
WaitOrderDownTo(from, i) ==
    IF from < i THEN <<>>
    ELSE <<pipeline[from].cmd>> \o WaitOrderDownTo(from - 1, i)

WaitedLabels == [k \in 1..Len(waits) |-> waits[k].cmd]

(***************************************************************************)
(* Properties                                                              *)
(***************************************************************************)
\* C1: with pipefail enabled, a pipeline of two or more stages in which a
\* non-terminal stage without ignore-error fails while the terminal stage
\* succeeds makes wait_cmd_result and wait_fun_result return a failure.
C1_PipefailPropagates ==
    ( /\ OnWholePipeline
      /\ StatusOrText
      /\ Len(pipeline) >= 2
      /\ env # "0"
      /\ ~Failing(Terminal)
      /\ \E i \in NonTerminal :
            Failing(pipeline[i]) /\ ~pipeline[i].ignore_error )
    => ret.t = "Err"

C1_Witness ==
    /\ OnWholePipeline
    /\ op = "wait_fun_result"
    /\ Len(pipeline) = 3
    /\ env = "unset"
    /\ ~Failing(Terminal)
    /\ pipeline[1].kind = "ThreadFn" /\ pipeline[1].join.t = "Panic"
    /\ ~pipeline[1].ignore_error
    /\ ~Failing(pipeline[2])
    /\ ret.t = "Err"

\* C2: with pipefail disabled (CMD_LIB_PIPEFAIL = "0"), wait_cmd_result and
\* wait_fun_result return success whenever the terminal stage succeeds,
\* whichever non-terminal stages fail and however they fail.
C2_NoPipefailTerminalDecides ==
    ( /\ OnWholePipeline
      /\ StatusOrText
      /\ env = "0"
      /\ ~Failing(Terminal) )
    => ret.t = "Ok"

C2_Witness ==
    /\ OnWholePipeline
    /\ op = "wait_cmd_result"
    /\ env = "0"
    /\ Len(pipeline) = 3
    /\ ~Failing(Terminal)
    /\ pipeline[1].kind = "Proc" /\ pipeline[1].status.kind = "signal"
    /\ pipeline[2].kind = "ThreadFn" /\ pipeline[2].join.t = "Err"
    /\ ~pipeline[1].ignore_error /\ ~pipeline[2].ignore_error
    /\ ret.t = "Ok"

\* C3: a stage with ignore-error set never contributes a failure: no call
\* returns a failure that comes from such a stage, and capturing the output
\* of such a stage (wait_with_output) yields success.
C3_IgnoreErrorNeverContributes ==
    /\ (op # "none" /\ ret.t = "Err")
          => ~pipeline[OriginOf(ret.e)].ignore_error
    /\ (op = "wait_fun_result" /\ before # <<>> /\ Last(before).ignore_error)
          => ret.t # "Panic"

C5_LogNamesWholePipeline ==
    (OnWholePipeline /\ StatusOrText /\ ret.t = "Err")
    => /\ Len(errlog) = 1
       /\ errlog[1].cmd = JoinedLabels(Len(pipeline))

\* C6: a call of wait_cmd_result or wait_fun_result emits exactly one
\* error-log entry, for the failure it returns, if it returns a failure, and
\* none if it returns success; wait_with_pipe emits none.
C6_OneErrorEntryPerFailure ==
    /\ (StatusOrText /\ ret.t = "Err") => (Len(errlog) = 1 /\ errlog[1].err = ret.e)
    /\ (StatusOrText /\ ret.t = "Ok") => errlog = <<>>
    /\ op = "wait_with_pipe" => errlog = <<>>

C6_Witness ==
    /\ OnWholePipeline
    /\ op = "wait_fun_result"
    /\ env = "1"
    /\ Len(pipeline) = 3
    /\ \A i \in 1..3 : Failing(pipeline[i]) /\ ~pipeline[i].ignore_error
    /\ ret.t = "Err"
    /\ Len(waits) = 2
    /\ Len(errlog) = 1

\* C9: on success, wait_fun_result returns the terminal stage's captured
\* output, decoded, without its last character if that is a line feed and
\* unchanged otherwise.
C9_StripsOneNewline ==
    (OnWholePipeline /\ op = "wait_fun_result" /\ ret.t = "Ok")
    => LET bytes == Terminal.out
           ends == Len(bytes) > 0 /\ bytes[Len(bytes)] = 10
           k == IF ends THEN Len(bytes) - 1 ELSE Len(bytes)
       IN /\ Len(ret.v) = k
          /\ \A j \in 1..k :
                ret.v[j] = IF bytes[j] < 128 THEN bytes[j] ELSE 65533

C9_Witness ==
    /\ OnWholePipeline
    /\ op = "wait_fun_result"
    /\ ret.t = "Ok"
    /\ Terminal.out = <<97, 10, 10>>
    /\ ret.v = <<97, 10>>

\* C10: for a single-stage pipeline whose process fails with ignore-error
\* unset, wait_cmd_result returns an execution failure with that stage's
\* label and its exit code, or its signal when it has no exit code.
C10_SingleStageExecutionFailure ==
    ( /\ OnWholePipeline
      /\ op = "wait_cmd_result"
      /\ Len(pipeline) = 1
      /\ Terminal.kind = "Proc"
      /\ ~success(Terminal.status)
      /\ ~Terminal.ignore_error )
    => /\ ret.t = "Err"
       /\ ret.e.kind = "exited"
       /\ ret.e.cmd = Terminal.cmd
       /\ ret.e.n = Terminal.status.n
       /\ ret.e.how = IF Terminal.status.kind = "exit"
                      THEN "status code" ELSE "terminated by"

C10_Witness ==
    /\ OnWholePipeline
    /\ op = "wait_cmd_result"
    /\ Len(pipeline) = 1
    /\ Terminal.kind = "Proc"
    /\ Terminal.status = [kind |-> "signal", n |-> 9]
    /\ ~Terminal.ignore_error
    /\ ret.t = "Err" /\ ret.e.how = "terminated by" /\ ret.e.n = 9

\* C7: after wait_with_pipe has returned for a terminal stage that is an
\* external process, the process is no longer running, and it was killed
\* only after the callback had returned.
C7_StreamedProcessTerminated ==
    (call.name = "wait_with_pipe" /\ cmdchild.kind = "Proc" /\ Returned)
    => /\ ~Running
       /\ \A i \in 1..Len(events) :
             events[i] = "child.kill" => \E j \in 1..(i - 1) : events[j] = "f"

\* the caller is blocked waiting for the process to exit
BlockedOnExit == Step \in {"child.wait", "child.wait_with_output"} /\ Running

\* the process is blocked writing diagnostics to a full pipe
BlockedOnDiagnostics == Running /\ towrite > 0 /\ errpipe = PipeCap

WaitOnProcess ==
    cmdchild.kind = "Proc" /\ call.name \in {"wait", "wait_with_output"}

\* C8: wait and wait_with_output on a process stage do not deadlock on
\* diagnostic output: whenever the process is blocked writing diagnostics
\* while the caller is blocked waiting for its exit, the drain thread is
\* running, and the wait on a process that exits once it has written its
\* diagnostics eventually returns.
C8_NoDiagnosticDeadlock ==
    /\ []((WaitOnProcess /\ BlockedOnExit /\ BlockedOnDiagnostics) => drain = "running")
    /\ (WaitOnProcess /\ ~cmdchild.forever) ~> Returned

C8_Witness ==
    /\ WaitOnProcess
    /\ call.name = "wait"
    /\ cmdchild.diag > PipeCap
    /\ Returned
    /\ info = cmdchild.diag
    /\ joined

\* whether the drain thread of a consumed stage has been spawned and joined
\* when the consuming call returns: wait joins it in every arm before the
\* failure test (lines 143-145, 161-163, 184); wait_with_output returns from
\* child.join().unwrap()? (line 226) before polling_stderr.join() (line 227);
\* the match of wait_with_pipe joins it for Proc and SyncFn (lines 87, 93)
drain_joined(self, how) ==
    CASE how = "wait" -> TRUE
      [] how = "wait_with_output" -> (self.kind = "ThreadFn" => self.join.t = "Ok")
      [] how = "pipe" -> self.kind # "ThreadFn"

\* the position in the pipeline of the stage with a label
StageOf(label) == CHOOSE i \in 1..Len(pipeline) : pipeline[i].cmd = label

\* the stages the last call consumed and whose diagnostics it forwarded to
\* the end before it returned
DrainedLabels ==
    {waits[k].cmd : k \in {j \in 1..Len(waits) :
        drain_joined(pipeline[StageOf(waits[j].cmd)], waits[j].how)}}

\* C11: when wait_cmd_result or wait_fun_result returns, the diagnostic
\* output of every stage of the pipeline has reached the informational log:
\* every stage was consumed and its drain thread joined, whether its failure
\* is reported or suppressed.
C11_DiagnosticsOfEveryStageLogged ==
    (OnWholePipeline /\ StatusOrText /\ ret.t # "Panic")
    => \A i \in 1..Len(pipeline) : pipeline[i].cmd \in DrainedLabels

\* C12: wait_with_pipe on a pipeline whose terminal stage is a background
\* task panics: the callback is not invoked and the call returns no value.
C12_PipeOnTaskPanics ==
    (OnWholePipeline /\ op = "wait_with_pipe" /\ Terminal.kind = "ThreadFn")
    => (ret = Panic /\ cb = <<>>)

C12_Witness ==
    /\ OnWholePipeline
    /\ op = "wait_with_pipe"
    /\ Len(pipeline) = 2
    /\ Terminal.kind = "ThreadFn"
    /\ Terminal.stdout
    /\ Terminal.join.t = "Ok"
    /\ ret = Panic
    /\ cb = <<>>

\* the statements at which the caller blocks on the process's exit, the
\* task's end or the end of an output stream
BlockingSteps ==
    {"child.wait", "child.wait_with_output", "child.join", "read_to_end",
     "print_stdout_output"}

\* C13: in wait and wait_with_output, for every stage kind, the drain thread
\* is spawned before the first statement at which the caller blocks, and it
\* has been joined when the operation returns, on the paths returning a
\* failure as on the others.
C13_DrainStartedAndJoined ==
    (call.name \in {"wait", "wait_with_output"})
    => /\ \A i \in 1..Len(events) :
             events[i] \in BlockingSteps
                => \E j \in 1..(i - 1) : events[j] = "log_stderr_output"
       /\ (Returned /\ sret.t # "Panic") => joined

\* the last call ran a cleanup pass: wait_fun_result after the capture of the
\* terminal stage failed, or wait_with_pipe after its terminal stage
CleanupPass ==
    \/ op = "wait_fun_result" /\ wait_with_output(Terminal).t = "Err"
    \/ op = "wait_with_pipe" /\ ret.t # "Panic"

\* C14: in the cleanup passes every remaining stage of the pipeline is
\* waited before the call returns, also when one of them fails, and the
\* errors of those waits are discarded: all stages have been waited, in wait
\* order, the handle holds none, and the result does not come from them.
C14_CleanupWaitsEveryStage ==
    (OnWholePipeline /\ CleanupPass)
    => /\ WaitedLabels = WaitOrderDownTo(Len(pipeline), 1)
       /\ children = <<>>
       /\ op = "wait_with_pipe" => ret = OkUnit
       /\ op = "wait_fun_result" => ret = wait_with_output(Terminal)

\* C15: when the capture of the terminal stage fails in wait_fun_result, the
\* call returns exactly the capture's error, whatever the remaining stages
\* waited afterwards do, and no text.
C15_CaptureErrorReturned ==
    (OnWholePipeline /\ op = "wait_fun_result" /\ wait_with_output(Terminal).t = "Err")
    => /\ ret.t = "Err"
       /\ ret.e = wait_with_output(Terminal).e
       /\ IF Terminal.kind = "Proc"
          THEN ret.e = status_to_io_error(Terminal.status, Terminal.cmd)
          ELSE ret.e = Terminal.join.e

C15_Witness ==
    /\ OnWholePipeline
    /\ op = "wait_fun_result"
    /\ env = "1"
    /\ Len(pipeline) = 3
    /\ Terminal.kind = "Proc" /\ Terminal.status = [kind |-> "exit", n |-> 1]
    /\ ~Terminal.ignore_error
    /\ pipeline[2].kind = "Proc" /\ pipeline[2].status.kind = "signal"
    /\ ~pipeline[2].ignore_error
    /\ Len(waits) = 2
    /\ ret.t = "Err" /\ ret.e.cmd = "C" /\ ret.e.n = 1

\* C16: when the wait of the terminal stage fails in wait_cmd_result, the
\* call returns that failure at once: the terminal stage is the only stage
\* waited and the handle still holds every non-terminal stage.
C16_TerminalFailureReturnsAtOnce ==
    ( /\ OnWholePipeline
      /\ op = "wait_cmd_result"
      /\ wait(Terminal, TRUE, env).t = "Err" )
    => /\ ret = wait(Terminal, TRUE, env)
       /\ waits = <<WaitEvent(Terminal, "wait", TRUE)>>
       /\ children = Front(pipeline)

C16_Witness ==
    /\ OnWholePipeline
    /\ op = "wait_cmd_result"
    /\ env = "0"
    /\ Len(pipeline) = 3
    /\ Terminal.kind = "ThreadFn" /\ Terminal.join.t = "Panic"
    /\ ~Terminal.ignore_error
    /\ Failing(pipeline[1]) /\ Failing(pipeline[2])
    /\ ret.t = "Err" /\ ret.e.kind = "thread" /\ ret.e.cmd = "C"
    /\ Len(waits) = 1
    /\ Len(children) = 2

\* C17: wait_with_output on a background-task stage whose task crashed or
\* returned a failure returns a failure, whatever the pipefail flag, and
\* does so only after the task's output stream, if held, was read to its end.
C17_TaskFailurePropagated ==
    ( /\ call.name = "wait_with_output"
      /\ cmdchild.kind = "ThreadFn"
      /\ cmdchild.join.t # "Ok"
      /\ Returned )
    => /\ sret.t = "Err"
       /\ cmdchild.stdout => \E j \in 1..Len(events) : events[j] = "read_to_end"

\* the caller has copied the stage's primary stream to standard output
PassedThrough ==
    cmdchild.stdout /\ \E i \in 1..Len(events) : events[i] = "print_stdout_output"

\* C18: in wait on a process stage, the primary output is passed through to
\* standard output only after the blocking wait for the process's exit has
\* returned, and only when the wait does not return a failure.
C18_PassthroughOnlyWithoutFailure ==
    (call.name = "wait" /\ cmdchild.kind = "Proc")
    => /\ \A i \in 1..Len(events) :
             events[i] = "print_stdout_output"
                => \E j \in 1..(i - 1) : events[j] = "child.wait"
       /\ (Returned /\ sret.t = "Err") => ~PassedThrough

\* C19: over any sequence of wait_cmd_result, wait_fun_result and
\* wait_with_pipe on one handle, the only stage ever waited with
\* is_last = true, captured or streamed is the last stage of the pipeline as
\* constructed, and no call is started on a handle that holds no stage.
C19_WaitingBeginsAtTerminalStage ==
    /\ \A k \in 1..Len(waits) : waits[k].is_last => waits[k].cmd = Terminal.cmd
    /\ op # "none" => before # <<>>

\* the callback of wait_with_pipe is blocked reading the primary stream of a
\* process that has not ended
BlockedOnRead == Step = "f" /\ call.cbfull /\ Running

PipeOnProcess ==
    cmdchild.kind = "Proc" /\ call.name = "wait_with_pipe" /\ cmdchild.stdout

\* C20: wait_with_pipe on a process terminal stage does not deadlock on
\* diagnostic output: whenever the process is blocked writing diagnostics
\* while the callback is blocked reading the primary stream, the drain
\* thread is running, and with a callback that reads to end-of-data the call
\* on a process that exits once it has written its diagnostics eventually
\* returns.
C20_PipeNoDiagnosticDeadlock ==
    /\ []((PipeOnProcess /\ BlockedOnRead /\ BlockedOnDiagnostics) => drain = "running")
    /\ (PipeOnProcess /\ call.cbfull /\ ~cmdchild.forever) ~> Returned

====
